---- MODULE Spec2Model ----
(***************************************************************************)
(* A model of package protocol (src/protocol/protocol.go): the CMS         *)
(* SignedData builder (NewSignedData, AddSignerInfo) and the accessors     *)
(* EContentValue, GetOnlyAttributeValueBytes and FindCertificate.          *)
(*                                                                         *)
(* Byte strings are sequences of 0..255.  A Go nil slice is NilBytes, a    *)
(* value no byte string equals, so that nil and empty stay distinct.       *)
(* DER is modelled at the byte level for the low-tag-number form and for   *)
(* lengths below 256.                                                      *)
(***************************************************************************)
EXTENDS Integers, Sequences, FiniteSets, TLC

VARIABLES
    sd,       \* the SignedData under construction (builder specification)
    ret,      \* what the last AddSignerInfo call returned ("init" before any)
    calls,    \* number of AddSignerInfo calls made so far
    signLog,  \* per appended SignerInfo: the bytes digested and signed (sm),
              \* the signer's public key and the Raw of the matched certificate
    input,    \* argument of the accessor under test (accessor specifications)
    output,   \* its result
    pc        \* "builder", or "ready" / "done" for an accessor call

vars == <<sd, ret, calls, signLog, input, output, pc>>

---------------------------------------------------------------------------
(* Go values *)

NilBytes == <<-1>>

GoLen(b) == IF b = NilBytes THEN 0 ELSE Len(b)

BytesOf(b) == IF b = NilBytes THEN <<>> ELSE b

\* append(a, b...) on byte slices: appending nothing to nil leaves nil.
GoAppend(a, b) ==
    IF a = NilBytes
    THEN (IF GoLen(b) = 0 THEN NilBytes ELSE b)
    ELSE a \o BytesOf(b)

ErrNone == "nil"
ErrSyntax == "asn1: syntax error"
ErrStructural == "asn1: structure error"
ErrTrailing == "unexpected trailing data"
ErrBadData == "bad data content"
ErrWrongType == "cms/protocol: wrong choice or any type"
ErrDetached == "already detached"
ErrNoMatchingSigner == "No certificate matching signer's public key"
ErrUnsupportedDigest == "unsupported digest algorithm"
ErrUnsupportedSignature == "unsupported signature algorithm"
ErrAlreadyAdded == "certificate already added"
ErrUnknownDigest == "unknown digest algorithm"
ErrUnsupportedKey == "x509: unsupported public key type"
ErrSign == "signer: sign failed"
ErrNoCertificates == "no certificates"
ErrUnknownVersion == "unknown SignerInfo version"
ErrNoMatchingCertificate == "no matching certificate"
ErrExpectedOneAttribute == "expected 1 attribute"
ErrExpectedOneValue == "expected 1 attribute value"
ErrUnsupportedCertificate == "Unsupported certificate type"

---------------------------------------------------------------------------
(* encoding/asn1 as the package uses it *)

ClassUniversal == 0
ClassContextSpecific == 2
TagInteger == 2
TagBitString == 3
TagOctetString == 4
TagOID == 6
TagSequence == 16
TagSet == 17

ZeroRawValue ==
    [Class |-> 0, Tag |-> 0, IsCompound |-> FALSE,
     Bytes |-> NilBytes, FullBytes |-> NilBytes]

\* The identifier octet of a low-tag-number TLV.
TagByte(class, compound, tag) ==
    class * 64 + (IF compound THEN 32 ELSE 0) + tag

EncodeLength(n) == IF n < 128 THEN <<n>> ELSE <<129, n>>

\* One DER TLV with identifier octet t and content c.
TLV(t, c) == <<t>> \o EncodeLength(Len(c)) \o c

\* asn1.Unmarshal(b, &rawValue): the first TLV of b and the bytes after it.
Unmarshal(b) ==
    LET n == GoLen(b)
        bad == [err |-> ErrSyntax, rv |-> ZeroRawValue, rest |-> NilBytes]
    IN  IF n < 2 \/ b[1] % 32 = 31 THEN bad
        ELSE LET long == b[2] >= 128
                 okLen == IF long THEN b[2] = 129 /\ n >= 3 /\ b[3] >= 128
                          ELSE TRUE
             IN  IF ~okLen THEN bad
                 ELSE LET hdr == IF long THEN 3 ELSE 2
                          len == IF long THEN b[3] ELSE b[2]
                      IN  IF hdr + len > n THEN bad
                          ELSE [err |-> ErrNone,
                                rv |-> [Class |-> b[1] \div 64,
                                        Tag |-> b[1] % 32,
                                        IsCompound |-> (b[1] \div 32) % 2 = 1,
                                        Bytes |-> SubSeq(b, hdr + 1, hdr + len),
                                        FullBytes |-> SubSeq(b, 1, hdr + len)],
                                rest |-> SubSeq(b, hdr + len + 1, n)]

\* asn1.Marshal of a RawValue: FullBytes when set, else tag, length, Bytes.
MarshalRawValue(rv) ==
    IF GoLen(rv.FullBytes) > 0 THEN rv.FullBytes
    ELSE TLV(TagByte(rv.Class, rv.IsCompound, rv.Tag), BytesOf(rv.Bytes))

RECURSIVE Base128Cont(_)
Base128Cont(n) ==
    IF n < 128 THEN <<128 + n>>
    ELSE Base128Cont(n \div 128) \o <<128 + (n % 128)>>

Base128(n) ==
    IF n < 128 THEN <<n>> ELSE Base128Cont(n \div 128) \o <<n % 128>>

RECURSIVE EncodeArcs(_, _)
EncodeArcs(oid, i) ==
    IF i > Len(oid) THEN <<>> ELSE Base128(oid[i]) \o EncodeArcs(oid, i + 1)

\* asn1.Marshal of an ObjectIdentifier.
MarshalOID(oid) ==
    TLV(TagOID, <<40 * oid[1] + oid[2]>> \o EncodeArcs(oid, 3))

RECURSIVE DecodeArcs(_, _, _)
DecodeArcs(b, i, acc) ==
    IF i > Len(b) THEN <<>>
    ELSE IF b[i] >= 128 THEN DecodeArcs(b, i + 1, acc * 128 + (b[i] - 128))
    ELSE <<acc * 128 + b[i]>> \o DecodeArcs(b, i + 1, 0)

\* asn1.Unmarshal(b, &objectIdentifier).
UnmarshalOID(b) ==
    LET u == Unmarshal(b)
    IN  IF u.err # ErrNone THEN [err |-> u.err, oid |-> <<>>, rest |-> NilBytes]
        ELSE IF u.rv.Class # ClassUniversal \/ u.rv.Tag # TagOID \/ u.rv.IsCompound
        THEN [err |-> ErrStructural, oid |-> <<>>, rest |-> NilBytes]
        ELSE IF Len(u.rv.Bytes) = 0 \/ u.rv.Bytes[Len(u.rv.Bytes)] >= 128
        THEN [err |-> ErrSyntax, oid |-> <<>>, rest |-> NilBytes]
        ELSE LET c == u.rv.Bytes
                 first == IF c[1] < 80 THEN <<c[1] \div 40, c[1] % 40>>
                          ELSE <<2, c[1] - 80>>
             IN  [err |-> ErrNone, oid |-> first \o DecodeArcs(c, 2, 0),
                  rest |-> u.rest]

\* bytes.Compare(a, b) < 0.
BytesLess(a, b) ==
    LET m == IF Len(a) < Len(b) THEN Len(a) ELSE Len(b)
        diffs == {i \in 1..m : a[i] # b[i]}
    IN  IF diffs = {} THEN Len(a) < Len(b)
        ELSE LET k == CHOOSE i \in diffs : \A j \in diffs : i <= j
             IN  a[k] < b[k]

\* Insert encoding e into the sorted list of encodings s.
RECURSIVE InsertSorted(_, _)
InsertSorted(e, s) ==
    IF Len(s) = 0 THEN <<e>>
    ELSE IF BytesLess(e, s[1]) THEN <<e>> \o s
    ELSE <<s[1]>> \o InsertSorted(e, Tail(s))

\* The order asn1.Marshal gives the members of a SET OF (X.690 11.6).
RECURSIVE SortEncodings(_)
SortEncodings(s) ==
    IF Len(s) = 0 THEN <<>> ELSE InsertSorted(s[1], SortEncodings(Tail(s)))

RECURSIVE Concat(_)
Concat(s) == IF Len(s) = 0 THEN <<>> ELSE s[1] \o Concat(Tail(s))

---------------------------------------------------------------------------
(* OIDs and the algorithm tables *)

nilOID == <<>>
oidData == <<1, 2, 840, 113549, 1, 7, 1>>
oidSignedData == <<1, 2, 840, 113549, 1, 7, 2>>
oidTSTInfo == <<1, 2, 840, 113549, 1, 9, 16, 1, 4>>
oidAttributeContentType == <<1, 2, 840, 113549, 1, 9, 3>>
oidAttributeMessageDigest == <<1, 2, 840, 113549, 1, 9, 4>>
oidAttributeSigningTime == <<1, 2, 840, 113549, 1, 9, 5>>
oidSignatureAlgorithmRSA == <<1, 2, 840, 113549, 1, 1, 1>>
oidSignatureAlgorithmECDSA == <<1, 2, 840, 10045, 2, 1>>
oidDigestAlgorithmSHA1 == <<1, 3, 14, 3, 2, 26>>
oidDigestAlgorithmMD5 == <<1, 2, 840, 113549, 2, 5>>
oidDigestAlgorithmSHA256 == <<2, 16, 840, 1, 101, 3, 4, 2, 1>>
oidDigestAlgorithmSHA384 == <<2, 16, 840, 1, 101, 3, 4, 2, 2>>
oidDigestAlgorithmSHA512 == <<2, 16, 840, 1, 101, 3, 4, 2, 3>>
oidSubjectKeyIdentifier == <<2, 5, 29, 14>>

\* crypto.Hash values are named by their algorithm; "" is the zero Hash.
digestAlgorithmToHash(oid) ==
    CASE oid = oidDigestAlgorithmSHA1 -> "SHA1"
      [] oid = oidDigestAlgorithmMD5 -> "MD5"
      [] oid = oidDigestAlgorithmSHA256 -> "SHA256"
      [] oid = oidDigestAlgorithmSHA384 -> "SHA384"
      [] oid = oidDigestAlgorithmSHA512 -> "SHA512"
      [] OTHER -> ""

signatureAlgorithmToDigestAlgorithm(alg) ==
    CASE alg \in {"SHA1WithRSA", "ECDSAWithSHA1"} -> oidDigestAlgorithmSHA1
      [] alg = "MD5WithRSA" -> oidDigestAlgorithmMD5
      [] alg \in {"SHA256WithRSA", "ECDSAWithSHA256"} -> oidDigestAlgorithmSHA256
      [] alg \in {"SHA384WithRSA", "ECDSAWithSHA384"} -> oidDigestAlgorithmSHA384
      [] alg \in {"SHA512WithRSA", "ECDSAWithSHA512"} -> oidDigestAlgorithmSHA512
      [] OTHER -> nilOID

signatureAlgorithmToSignatureAlgorithm(alg) ==
    CASE alg \in {"SHA1WithRSA", "MD5WithRSA", "SHA256WithRSA",
                  "SHA384WithRSA", "SHA512WithRSA"} -> oidSignatureAlgorithmRSA
      [] alg \in {"ECDSAWithSHA1", "ECDSAWithSHA256", "ECDSAWithSHA384",
                  "ECDSAWithSHA512"} -> oidSignatureAlgorithmECDSA
      [] OTHER -> nilOID

---------------------------------------------------------------------------
(* x509 certificates and keys, as far as the package reads them *)

\* x509.MarshalPKIXPublicKey: key 0 stands for a key type it cannot encode.
MarshalPKIXPublicKey(key) ==
    IF key = 0 THEN [err |-> ErrUnsupportedKey, der |-> NilBytes]
    ELSE [err |-> ErrNone, der |-> TLV(48, TLV(TagBitString, <<0, key>>))]

AlgCode(alg) ==
    CASE alg = "SHA1WithRSA" -> 3
      [] alg = "SHA256WithRSA" -> 4
      [] alg = "ECDSAWithSHA1" -> 9
      [] alg = "SHA512WithRSA" -> 6
      [] OTHER -> 0

\* A parsed certificate: Raw is the DER the other fields were read from.
Certificate(iss, ser, key, alg, ski) ==
    LET rawIssuer == TLV(48, TLV(49, <<iss>>))
        ext == IF ski = NilBytes THEN <<>>
               ELSE TLV(163, TLV(48, MarshalOID(oidSubjectKeyIdentifier)
                                     \o TLV(TagOctetString, ski)))
        tbs == TLV(48, TLV(TagInteger, <<ser>>) \o rawIssuer
                       \o TLV(48, TLV(TagBitString, <<0, key>>)) \o ext)
    IN  [Raw |-> TLV(48, tbs \o TLV(48, <<AlgCode(alg)>>)
                             \o TLV(TagBitString, <<0>>)),
         RawIssuer |-> rawIssuer,
         SerialNumber |-> ser,
         PublicKey |-> key,
         SignatureAlgorithm |-> alg,
         Extensions |-> IF ski = NilBytes THEN <<>>
                        ELSE <<[Id |-> oidSubjectKeyIdentifier, Value |-> ski]>>]

NilCert ==
    [Raw |-> NilBytes, RawIssuer |-> NilBytes, SerialNumber |-> 0,
     PublicKey |-> 0, SignatureAlgorithm |-> "", Extensions |-> <<>>]

---------------------------------------------------------------------------
(* EncapsulatedContentInfo *)

NewEncapsulatedContentInfo(content, contentType) ==
    [EContentType |-> contentType,
     EContent |-> [Class |-> ClassContextSpecific, Tag |-> 0,
                   Bytes |-> MarshalRawValue(
                       [Class |-> ClassUniversal, Tag |-> TagOctetString,
                        Bytes |-> content, IsCompound |-> FALSE,
                        FullBytes |-> NilBytes]),
                   IsCompound |-> TRUE, FullBytes |-> NilBytes]]

\* A segment loop that does not refuse constructed segments.
RECURSIVE ConcatSegmentsNested(_, _)
ConcatSegmentsNested(rest, value) ==
    IF GoLen(rest) = 0 THEN [value |-> value, err |-> ErrNone]
    ELSE LET u == Unmarshal(rest)
         IN  IF u.err # ErrNone THEN [value |-> NilBytes, err |-> u.err]
             ELSE IF u.rv.Class # ClassUniversal \/ u.rv.Tag # TagOctetString
             THEN [value |-> NilBytes, err |-> ErrBadData]
             ELSE ConcatSegmentsNested(u.rest, GoAppend(value, u.rv.Bytes))

\* The loop of EContentValue over the segments of a constructed OCTET STRING.
RECURSIVE ConcatSegments(_, _)
ConcatSegments(rest, value) ==
    IF GoLen(rest) = 0 THEN [value |-> value, err |-> ErrNone]
    ELSE LET u == Unmarshal(rest)
         IN  IF u.err # ErrNone THEN [value |-> NilBytes, err |-> u.err]
             ELSE IF u.rv.Class # ClassUniversal \/ u.rv.Tag # TagOctetString
                     \/ u.rv.IsCompound
             THEN [value |-> NilBytes, err |-> ErrBadData]
             ELSE ConcatSegments(u.rest, GoAppend(value, u.rv.Bytes))

EContentValue(eci) ==
    IF eci.EContent.Bytes = NilBytes THEN [value |-> NilBytes, err |-> ErrNone]
    ELSE LET u == Unmarshal(eci.EContent.Bytes)
         IN  IF u.err # ErrNone THEN [value |-> NilBytes, err |-> u.err]
             ELSE IF GoLen(u.rest) > 0
             THEN [value |-> NilBytes, err |-> ErrTrailing]
             ELSE IF u.rv.Class # ClassUniversal \/ u.rv.Tag # TagOctetString
             THEN [value |-> NilBytes, err |-> ErrBadData]
             ELSE IF u.rv.IsCompound THEN ConcatSegments(u.rv.Bytes, NilBytes)
             ELSE [value |-> u.rv.Bytes, err |-> ErrNone]

IsTypeData(eci) == eci.EContentType = oidData

---------------------------------------------------------------------------
(* Attributes.  An Attributes value is [isNil, elems]: a nil slice has      *)
(* isNil and no elements.                                                  *)

NilAttributes == [isNil |-> TRUE, elems |-> <<>>]

\* AnySet.Encode: the elements re-wrapped under a universal SET tag.
AnySetEncode(elements) ==
    LET body == Concat([i \in 1..Len(elements) |-> MarshalRawValue(elements[i])])
    IN  [Class |-> ClassUniversal, Tag |-> TagSet, IsCompound |-> TRUE,
         Bytes |-> body, FullBytes |-> TLV(TagByte(ClassUniversal, TRUE, TagSet), body)]

RECURSIVE DecodeElements(_)
DecodeElements(der) ==
    IF GoLen(der) = 0 THEN [err |-> ErrNone, Elements |-> <<>>]
    ELSE LET u == Unmarshal(der)
         IN  IF u.err # ErrNone THEN [err |-> u.err, Elements |-> <<>>]
             ELSE LET r == DecodeElements(u.rest)
                  IN  IF r.err # ErrNone THEN r
                      ELSE [err |-> ErrNone, Elements |-> <<u.rv>> \o r.Elements]

\* DecodeAnySet: the immediate children of the set, uninterpreted.
DecodeAnySet(rv) == DecodeElements(rv.Bytes)

\* NewAttribute(typ, val), given der = asn1.Marshal(val).
NewAttribute(typ, der) ==
    LET u == Unmarshal(der)
    IN  IF u.err # ErrNone THEN [err |-> u.err, attr |-> [Type |-> nilOID, RawValue |-> ZeroRawValue]]
        ELSE [err |-> ErrNone,
              attr |-> [Type |-> typ, RawValue |-> AnySetEncode(<<u.rv>>)]]

\* Attribute.Value
AttributeValue(a) == DecodeAnySet(a.RawValue)

\* asn1.Marshal of one Attribute: SEQUENCE { attrType, attrValues }.
MarshalAttribute(a) ==
    TLV(TagByte(ClassUniversal, TRUE, TagSequence),
        MarshalOID(a.Type) \o MarshalRawValue(a.RawValue))

AttributeEncodings(attrs) ==
    [i \in 1..Len(attrs.elems) |-> MarshalAttribute(attrs.elems[i])]

\* Attributes.MarshaledForSigning: marshal struct{Attributes `asn1:"set"`},
\* then unwrap the outer SEQUENCE.
MarshaledForSigning(attrs) ==
    LET set == TLV(TagByte(ClassUniversal, TRUE, TagSet),
                   Concat(SortEncodings(AttributeEncodings(attrs))))
        seq == TLV(TagByte(ClassUniversal, TRUE, TagSequence), set)
        raw == Unmarshal(seq)
    IN  IF raw.err # ErrNone THEN [err |-> raw.err, der |-> NilBytes]
        ELSE [err |-> ErrNone, der |-> raw.rv.Bytes]

\* The signedAttrs field as asn1.Marshal writes it inside a SignerInfo:
\* `asn1:"optional,tag:0"`, an implicitly tagged SEQUENCE OF in slice order.
MarshalSignedAttrsField(attrs) ==
    IF attrs.isNil THEN <<>>
    ELSE TLV(TagByte(ClassContextSpecific, TRUE, 0),
             Concat(AttributeEncodings(attrs)))

\* The loop of Attributes.GetValues over the attributes from index i on.
RECURSIVE CollectValues(_, _, _)
CollectValues(elems, oid, i) ==
    IF i > Len(elems) THEN [err |-> ErrNone, vals |-> <<>>]
    ELSE IF elems[i].Type = oid
    THEN LET val == AttributeValue(elems[i])
         IN  IF val.err # ErrNone THEN [err |-> val.err, vals |-> <<>>]
             ELSE LET r == CollectValues(elems, oid, i + 1)
                  IN  IF r.err # ErrNone THEN r
                      ELSE [err |-> ErrNone, vals |-> <<val.Elements>> \o r.vals]
    ELSE CollectValues(elems, oid, i + 1)

GetValues(attrs, oid) ==
    IF attrs.isNil THEN [err |-> ErrNone, vals |-> <<>>]
    ELSE CollectValues(attrs.elems, oid, 1)

\* A GetOnlyAttributeValueBytes that takes the first of several attributes.
GetFirstAttributeValueBytes(attrs, oid) ==
    LET g == GetValues(attrs, oid)
    IN  IF g.err # ErrNone THEN [err |-> g.err, rv |-> ZeroRawValue]
        ELSE IF Len(g.vals) = 0
        THEN [err |-> ErrExpectedOneAttribute, rv |-> ZeroRawValue]
        ELSE IF Len(g.vals[1]) # 1
        THEN [err |-> ErrExpectedOneValue, rv |-> ZeroRawValue]
        ELSE [err |-> ErrNone, rv |-> g.vals[1][1]]

GetOnlyAttributeValueBytes(attrs, oid) ==
    LET g == GetValues(attrs, oid)
    IN  IF g.err # ErrNone THEN [err |-> g.err, rv |-> ZeroRawValue]
        ELSE IF Len(g.vals) # 1
        THEN [err |-> ErrExpectedOneAttribute, rv |-> ZeroRawValue]
        ELSE IF Len(g.vals[1]) # 1
        THEN [err |-> ErrExpectedOneValue, rv |-> ZeroRawValue]
        ELSE [err |-> ErrNone, rv |-> g.vals[1][1]]

---------------------------------------------------------------------------
(* SignerInfo *)

\* NewIssuerAndSerialNumber: SEQUENCE { issuer Name, serialNumber INTEGER }.
NewIssuerAndSerialNumber(cert) ==
    LET i == Unmarshal(cert.RawIssuer)
    IN  IF i.err # ErrNone THEN [err |-> i.err, rv |-> ZeroRawValue]
        ELSE LET der == TLV(TagByte(ClassUniversal, TRUE, TagSequence),
                            MarshalRawValue(i.rv)
                            \o TLV(TagInteger, <<cert.SerialNumber>>))
                 u == Unmarshal(der)
             IN  [err |-> u.err, rv |-> u.rv]

\* SignerInfo.issuerAndSerialNumberSID
issuerAndSerialNumberSID(si) ==
    LET none == [Issuer |-> ZeroRawValue, SerialNumber |-> 0]
    IN  IF si.SID.Class # ClassUniversal \/ si.SID.Tag # TagSequence
        THEN [err |-> ErrWrongType, isn |-> none]
        ELSE LET outer == Unmarshal(si.SID.FullBytes)
             IN  IF outer.err # ErrNone THEN [err |-> outer.err, isn |-> none]
                 ELSE IF outer.rv.Class # ClassUniversal \/ outer.rv.Tag # TagSequence
                         \/ ~outer.rv.IsCompound
                 THEN [err |-> ErrStructural, isn |-> none]
                 ELSE LET iss == Unmarshal(outer.rv.Bytes)
                          ser == Unmarshal(iss.rest)
                      IN  IF iss.err # ErrNone THEN [err |-> iss.err, isn |-> none]
                          ELSE IF ser.err # ErrNone THEN [err |-> ser.err, isn |-> none]
                          ELSE IF ser.rv.Class # ClassUniversal \/ ser.rv.Tag # TagInteger
                                  \/ ser.rv.IsCompound \/ Len(ser.rv.Bytes) # 1
                          THEN [err |-> ErrStructural, isn |-> none]
                          ELSE IF GoLen(outer.rest) > 0
                          THEN [err |-> ErrTrailing,
                                isn |-> [Issuer |-> iss.rv,
                                         SerialNumber |-> ser.rv.Bytes[1]]]
                          ELSE [err |-> ErrNone,
                                isn |-> [Issuer |-> iss.rv,
                                         SerialNumber |-> ser.rv.Bytes[1]]]

\* SignerInfo.subjectKeyIdentifierSID
subjectKeyIdentifierSID(si) ==
    IF si.SID.Class # ClassContextSpecific \/ si.SID.Tag # 0
    THEN [err |-> ErrWrongType, ski |-> NilBytes]
    ELSE [err |-> ErrNone, ski |-> si.SID.Bytes]

\* The first certificate from index i on matching issuer and serial number.
RECURSIVE FirstByIssuerAndSerial(_, _, _)
FirstByIssuerAndSerial(certs, isn, i) ==
    IF i > Len(certs) THEN [cert |-> NilCert, err |-> ErrNoMatchingCertificate]
    ELSE IF BytesOf(certs[i].RawIssuer) = BytesOf(isn.Issuer.FullBytes)
            /\ isn.SerialNumber = certs[i].SerialNumber
    THEN [cert |-> certs[i], err |-> ErrNone]
    ELSE FirstByIssuerAndSerial(certs, isn, i + 1)

\* The first certificate from index i on with that subject key identifier.
RECURSIVE FirstBySubjectKeyId(_, _, _)
FirstBySubjectKeyId(certs, ski, i) ==
    IF i > Len(certs) THEN [cert |-> NilCert, err |-> ErrNoMatchingCertificate]
    ELSE IF \E k \in 1..Len(certs[i].Extensions) :
                /\ certs[i].Extensions[k].Id = oidSubjectKeyIdentifier
                /\ BytesOf(ski) = BytesOf(certs[i].Extensions[k].Value)
    THEN [cert |-> certs[i], err |-> ErrNone]
    ELSE FirstBySubjectKeyId(certs, ski, i + 1)

\* A FindCertificate whose default case falls out of the switch.
FindCertificateNoDefault(si, certs) ==
    IF Len(certs) = 0 THEN [cert |-> NilCert, err |-> ErrNoCertificates]
    ELSE IF si.Version = 1
    THEN LET s == issuerAndSerialNumberSID(si)
         IN  IF s.err # ErrNone THEN [cert |-> NilCert, err |-> s.err]
             ELSE FirstByIssuerAndSerial(certs, s.isn, 1)
    ELSE IF si.Version = 3
    THEN LET s == subjectKeyIdentifierSID(si)
         IN  IF s.err # ErrNone THEN [cert |-> NilCert, err |-> s.err]
             ELSE FirstBySubjectKeyId(certs, s.ski, 1)
    ELSE [cert |-> NilCert, err |-> ErrNoMatchingCertificate]

FindCertificate(si, certs) ==
    IF Len(certs) = 0 THEN [cert |-> NilCert, err |-> ErrNoCertificates]
    ELSE IF si.Version = 1
    THEN LET s == issuerAndSerialNumberSID(si)
         IN  IF s.err # ErrNone THEN [cert |-> NilCert, err |-> s.err]
             ELSE FirstByIssuerAndSerial(certs, s.isn, 1)
    ELSE IF si.Version = 3
    THEN LET s == subjectKeyIdentifierSID(si)
         IN  IF s.err # ErrNone THEN [cert |-> NilCert, err |-> s.err]
             ELSE FirstBySubjectKeyId(certs, s.ski, 1)
    ELSE [cert |-> NilCert, err |-> ErrUnknownVersion]

\* SignerInfo.Hash: every hash of the table is linked into the package.
Hash(si) ==
    LET hash == digestAlgorithmToHash(si.DigestAlgorithm.Algorithm)
    IN  IF hash = "" THEN [err |-> ErrUnknownDigest, hash |-> ""]
        ELSE [err |-> ErrNone, hash |-> hash]

\* SignerInfo.GetContentTypeAttribute
GetContentTypeAttribute(si) ==
    LET g == GetOnlyAttributeValueBytes(si.SignedAttrs, oidAttributeContentType)
    IN  IF g.err # ErrNone THEN [err |-> g.err, ct |-> nilOID]
        ELSE LET u == UnmarshalOID(g.rv.FullBytes)
             IN  IF u.err # ErrNone THEN [err |-> u.err, ct |-> nilOID]
                 ELSE IF GoLen(u.rest) > 0 THEN [err |-> ErrTrailing, ct |-> nilOID]
                 ELSE [err |-> ErrNone, ct |-> u.oid]

\* SignerInfo.GetMessageDigestAttribute
GetMessageDigestAttribute(si) ==
    LET g == GetOnlyAttributeValueBytes(si.SignedAttrs, oidAttributeMessageDigest)
    IN  IF g.err # ErrNone THEN [err |-> g.err, md |-> NilBytes]
        ELSE IF g.rv.Class # ClassUniversal \/ g.rv.Tag # TagOctetString
        THEN [err |-> ErrStructural, md |-> NilBytes]
        ELSE [err |-> ErrNone, md |-> g.rv.Bytes]

---------------------------------------------------------------------------
(* The hash and signature primitives (external): a digest has the size of  *)
(* its algorithm and depends on every byte of the message.                 *)

HashSize(h) ==
    CASE h = "MD5" -> 16
      [] h = "SHA1" -> 20
      [] h = "SHA256" -> 32
      [] h = "SHA384" -> 48
      [] h = "SHA512" -> 64

RECURSIVE WeightedSum(_, _, _)
WeightedSum(msg, lo, hi) ==
    IF lo > hi THEN 0
    ELSE IF lo = hi THEN (lo * (msg[lo] + 1)) % 251
    ELSE LET mid == (lo + hi) \div 2
         IN  (WeightedSum(msg, lo, mid) + WeightedSum(msg, mid + 1, hi)) % 251

Checksum(msg) == (WeightedSum(msg, 1, Len(msg)) + Len(msg)) % 251

Digest(h, msg) ==
    LET c == Checksum(BytesOf(msg))
    IN  [i \in 1..HashSize(h) |-> (c + i * HashSize(h)) % 256]

\* signer.Sign(rand.Reader, digest, hash)
Sign(signer, digest) ==
    IF signer.signOK THEN [err |-> ErrNone, sig |-> <<signer.pub>> \o digest]
    ELSE [err |-> ErrSign, sig |-> NilBytes]

---------------------------------------------------------------------------
(* SignedData *)

\* A NewSignedData that always picks version 1.
NewSignedDataAlwaysV1(eci) ==
    [Version |-> 1, DigestAlgorithms |-> <<>>, EncapContentInfo |-> eci,
     Certificates |-> <<>>, SignerInfos |-> <<>>]

NewSignedData(eci) ==
    [Version |-> IF ~IsTypeData(eci) THEN 3 ELSE 1,
     DigestAlgorithms |-> <<>>,
     EncapContentInfo |-> eci,
     Certificates |-> <<>>,
     SignerInfos |-> <<>>]

\* SignedData.addCertificate
addCertificate(s, cert) ==
    IF \E k \in 1..Len(s.Certificates) :
           BytesOf(s.Certificates[k].Bytes) = BytesOf(cert.Raw)
    THEN [sd |-> s, err |-> ErrAlreadyAdded]
    ELSE LET u == Unmarshal(cert.Raw)
         IN  IF u.err # ErrNone THEN [sd |-> s, err |-> u.err]
             ELSE [sd |-> [s EXCEPT !.Certificates = Append(@, u.rv)],
                   err |-> ErrNone]

\* An addDigestAlgorithm that appends without looking.
addDigestAlgorithmAlways(s, algo) ==
    [s EXCEPT !.DigestAlgorithms = Append(@, algo)]

\* An addDigestAlgorithm that returns as soon as the list holds anything.
addDigestAlgorithmFirstOnly(s, algo) ==
    IF Len(s.DigestAlgorithms) > 0 THEN s
    ELSE [s EXCEPT !.DigestAlgorithms = Append(@, algo)]

\* SignedData.addDigestAlgorithm
addDigestAlgorithm(s, algo) ==
    IF \E k \in 1..Len(s.DigestAlgorithms) :
           s.DigestAlgorithms[k].Algorithm = algo.Algorithm
    THEN s
    ELSE [s EXCEPT !.DigestAlgorithms = Append(@, algo)]

\* The loop of AddSignerInfo over the chain from index i on: registers each
\* certificate and remembers the last one whose public key is the signer's.
RECURSIVE ChainLoop(_, _, _, _, _)
ChainLoop(s, chain, i, pub, cert) ==
    IF i > Len(chain) THEN [sd |-> s, err |-> ErrNone, cert |-> cert]
    ELSE LET a == addCertificate(s, chain[i])
             certPub == MarshalPKIXPublicKey(chain[i].PublicKey)
         IN  IF a.err # ErrNone THEN [sd |-> a.sd, err |-> a.err, cert |-> cert]
             ELSE IF certPub.err # ErrNone
             THEN [sd |-> a.sd, err |-> certPub.err, cert |-> cert]
             ELSE ChainLoop(a.sd, chain, i + 1, pub,
                            IF BytesOf(pub) = BytesOf(certPub.der)
                            THEN chain[i] ELSE cert)

\* What AddSignerInfo yields: the SignedData it leaves (t), the error it
\* returns, the bytes it signed (sm) and the certificate it matched.
Failed(t, e) == [sd |-> t, err |-> e, sm |-> NilBytes, cert |-> NilCert]

\* AddSignerInfo, its last lines: register the digest algorithm, append si.
Finish(s1, si, sm, cert) ==
    [sd |-> [addDigestAlgorithm(s1, si.DigestAlgorithm)
                EXCEPT !.SignerInfos = Append(@, si)],
     err |-> ErrNone, sm |-> sm, cert |-> cert]

\* A SignStep that appends the SignerInfo before it looks at Sign's error.
SignStepAppendFirst(s1, cert, signer, si1, hash, sm, sig) ==
    IF sig.err # ErrNone
    THEN Failed([s1 EXCEPT !.SignerInfos = Append(@, si1)], sig.err)
    ELSE Finish(s1, [si1 EXCEPT !.Signature = sig.sig], sm, cert)

\* AddSignerInfo from signer.Sign on, given the marshaled attributes sm.
SignStep(s1, cert, signer, si1, hash, sm, sig) ==
    IF sig.err # ErrNone THEN Failed(s1, sig.err)
    ELSE Finish(s1, [si1 EXCEPT !.Signature = sig.sig], sm, cert)

\* A MarshalStep that registers the digest algorithm before signing.
MarshalStepRegisterFirst(s1, cert, signer, si1, hash, sm) ==
    IF sm.err # ErrNone THEN Failed(s1, sm.err)
    ELSE SignStep(addDigestAlgorithm(s1, si1.DigestAlgorithm), cert, signer,
                  si1, hash, sm.der, Sign(signer, Digest(hash, sm.der)))

\* AddSignerInfo from MarshaledForSigning on, given si with its attributes.
MarshalStep(s1, cert, signer, si1, hash, sm) ==
    IF sm.err # ErrNone THEN Failed(s1, sm.err)
    ELSE SignStep(s1, cert, signer, si1, hash, sm.der,
                  Sign(signer, Digest(hash, sm.der)))

\* AddSignerInfo from "Build our SignedAttributes" on.
AttributeStep(s1, cert, signer, si0, hash, mdAttr, ctAttr) ==
    IF mdAttr.err # ErrNone THEN Failed(s1, mdAttr.err)
    ELSE IF ctAttr.err # ErrNone THEN Failed(s1, ctAttr.err)
    ELSE MarshalStep(s1, cert, signer,
                     [si0 EXCEPT !.SignedAttrs =
                         [isNil |-> FALSE,
                          elems |-> @.elems \o <<mdAttr.attr, ctAttr.attr>>]],
                     hash,
                     MarshaledForSigning(
                         [isNil |-> FALSE,
                          elems |-> si0.SignedAttrs.elems
                                    \o <<mdAttr.attr, ctAttr.attr>>]))

\* A DigestStep that digests the eContent field as stored, the OCTET STRING
\* header included, instead of the content EContentValue returned.
DigestStepWrapped(s1, cert, signer, si0, content, hash) ==
    IF hash.err # ErrNone THEN Failed(s1, hash.err)
    ELSE AttributeStep(s1, cert, signer, si0, hash.hash,
                       NewAttribute(oidAttributeMessageDigest,
                                    TLV(TagOctetString,
                                        Digest(hash.hash,
                                               s1.EncapContentInfo.EContent.Bytes))),
                       NewAttribute(oidAttributeContentType, MarshalOID(oidData)))

\* AddSignerInfo from "Digest the message" on, given the content.
DigestStep(s1, cert, signer, si0, content, hash) ==
    IF hash.err # ErrNone THEN Failed(s1, hash.err)
    ELSE AttributeStep(s1, cert, signer, si0, hash.hash,
                       NewAttribute(oidAttributeMessageDigest,
                                    TLV(TagOctetString, Digest(hash.hash, content))),
                       NewAttribute(oidAttributeContentType, MarshalOID(oidData)))

\* AddSignerInfo from "Get the message" on, given the SignerInfo so far.
ContentStep(s1, cert, signer, si0, content) ==
    IF content.err # ErrNone THEN Failed(s1, content.err)
    ELSE IF content.value = NilBytes THEN Failed(s1, ErrDetached)
    ELSE DigestStep(s1, cert, signer, si0, content.value, Hash(si0))

\* AddSignerInfo from the algorithm lookups on, given the matched certificate.
AlgorithmStep(s1, cert, signer, sid, digestAlgorithm, signatureAlgorithm) ==
    IF sid.err # ErrNone THEN Failed(s1, sid.err)
    ELSE IF digestAlgorithm = nilOID THEN Failed(s1, ErrUnsupportedDigest)
    ELSE IF signatureAlgorithm = nilOID THEN Failed(s1, ErrUnsupportedSignature)
    ELSE ContentStep(s1, cert, signer,
                     [Version |-> 1,
                      SID |-> sid.rv,
                      DigestAlgorithm |-> [Algorithm |-> digestAlgorithm],
                      SignedAttrs |-> NilAttributes,
                      SignatureAlgorithm |-> [Algorithm |-> signatureAlgorithm],
                      Signature |-> NilBytes,
                      UnsignedAttrs |-> NilAttributes],
                     EContentValue(s1.EncapContentInfo))

\* AddSignerInfo after the loop over the chain.
MatchStep(signer, loop) ==
    IF loop.err # ErrNone THEN Failed(loop.sd, loop.err)
    ELSE IF loop.cert = NilCert THEN Failed(loop.sd, ErrNoMatchingSigner)
    ELSE AlgorithmStep(loop.sd, loop.cert, signer,
                       NewIssuerAndSerialNumber(loop.cert),
                       signatureAlgorithmToDigestAlgorithm(loop.cert.SignatureAlgorithm),
                       signatureAlgorithmToSignatureAlgorithm(loop.cert.SignatureAlgorithm))

\* AddSignerInfo after marshaling the signer's public key.
ChainStep(s, chain, signer, pub) ==
    IF pub.err # ErrNone THEN Failed(s, pub.err)
    ELSE MatchStep(signer, ChainLoop(s, chain, 1, pub.der, NilCert))

\* SignedData.AddSignerInfo(chain, signer)
AddSignerInfo(s, chain, signer) ==
    ChainStep(s, chain, signer, MarshalPKIXPublicKey(signer.pub))

---------------------------------------------------------------------------
(* The inputs of the builder specification *)

MaxCalls == 2

\* Certificates: cA and cC share a public key, cA and cD share issuer and
\* serial number, cE states a signature algorithm outside the tables.
cA == Certificate(1, 1, 1, "SHA256WithRSA", <<7>>)
cB == Certificate(1, 2, 2, "ECDSAWithSHA1", <<8>>)
cC == Certificate(2, 1, 1, "SHA256WithRSA", NilBytes)
cD == Certificate(1, 1, 2, "SHA512WithRSA", <<7>>)
cE == Certificate(2, 2, 3, "PureEd25519", NilBytes)

Certs == {cA, cB, cC, cD, cE}

\* Chains: empty, single, with a repeated certificate, with two certificates
\* of one public key in both orders, with two of one issuer and serial.
Chains ==
    {<<>>, <<cA>>, <<cB>>, <<cC>>, <<cD>>, <<cE>>,
     <<cA, cA>>, <<cA, cB>>, <<cA, cC>>, <<cC, cA>>, <<cA, cD>>, <<cB, cE>>}

\* Signers: pub 0 is a key MarshalPKIXPublicKey rejects; signOK tells
\* whether Sign succeeds.
Signers ==
    {[pub |-> k, signOK |-> TRUE] : k \in {0, 1, 2, 3}}
        \cup {[pub |-> 1, signOK |-> FALSE]}

\* An eContent present with the given bytes inside the [0] wrapper.
EContentOf(contentType, bytes) ==
    [EContentType |-> contentType,
     EContent |-> [Class |-> ClassContextSpecific, Tag |-> 0, Bytes |-> bytes,
                   IsCompound |-> TRUE, FullBytes |-> NilBytes]]

\* Encapsulated contents: built by NewEncapsulatedContentInfo (id-data and
\* id-ct-TSTInfo, empty and not), detached, and as a parser leaves them
\* (constructed OCTET STRINGs, a wrapped value that is no OCTET STRING).
ECIs ==
    {NewEncapsulatedContentInfo(<<104, 105>>, oidData),
     NewEncapsulatedContentInfo(<<>>, oidData),
     NewEncapsulatedContentInfo(<<48, 0>>, oidTSTInfo),
     [EContentType |-> oidData, EContent |-> ZeroRawValue],
     EContentOf(oidData, <<36, 6, 4, 1, 104, 4, 1, 105>>),
     EContentOf(oidData, <<36, 0>>),
     EContentOf(oidData, <<36, 2, 4, 0>>),
     EContentOf(oidData, <<2, 1, 5>>)}

\* x509.ParseCertificate on the encodings the model knows: the certificate
\* whose Raw is der.
ParseCertificate(der) ==
    IF \E c \in Certs : c.Raw = der
    THEN [err |-> ErrNone, cert |-> CHOOSE c \in Certs : c.Raw = der]
    ELSE [err |-> ErrSyntax, cert |-> NilCert]

\* SignedData.X509Certificates
X509Certificates(s) ==
    IF \E k \in 1..Len(s.Certificates) :
           \/ s.Certificates[k].Class # ClassUniversal
           \/ s.Certificates[k].Tag # TagSequence
    THEN [err |-> ErrUnsupportedCertificate, certs |-> <<>>]
    ELSE IF \E k \in 1..Len(s.Certificates) :
                ParseCertificate(s.Certificates[k].FullBytes).err # ErrNone
    THEN [err |-> ErrSyntax, certs |-> <<>>]
    ELSE [err |-> ErrNone,
          certs |-> [k \in 1..Len(s.Certificates) |->
                        ParseCertificate(s.Certificates[k].FullBytes).cert]]

---------------------------------------------------------------------------
(* The builder: NewSignedData, then AddSignerInfo calls *)

Idle == <<>>

Init ==
    /\ \E eci \in ECIs : sd = NewSignedData(eci)
    /\ ret = "init"
    /\ calls = 0
    /\ signLog = <<>>
    /\ input = Idle
    /\ output = Idle
    /\ pc = "builder"

\* The builder's state after a call that yielded r.
Returned(r, signer) ==
    /\ sd' = r.sd
    /\ ret' = r.err
    /\ signLog' = IF r.err = ErrNone
                  THEN Append(signLog, [sm |-> r.sm, pub |-> signer.pub,
                                        cert |-> r.cert.Raw])
                  ELSE signLog

DoAddSignerInfo(chain, signer) ==
    /\ pc = "builder"
    /\ calls < MaxCalls
    /\ Returned(AddSignerInfo(sd, chain, signer), signer)
    /\ calls' = calls + 1
    /\ UNCHANGED <<input, output, pc>>

Next == \E chain \in Chains : \E signer \in Signers : DoAddSignerInfo(chain, signer)

Spec == Init /\ [][Next]_vars

---------------------------------------------------------------------------
(* Accessor specifications: one call of a pure accessor on an input drawn  *)
(* from a bounded set.                                                     *)

SeqsUpTo(S, n) == UNION {[1..k -> S] : k \in 0..n}

BuilderIdle ==
    /\ sd = Idle
    /\ ret = "init"
    /\ calls = 0
    /\ signLog = <<>>

(* Attributes.GetOnlyAttributeValueBytes *)

MaxAttrs == 3

ValueX == Unmarshal(TLV(TagOctetString, <<1>>)).rv
ValueY == Unmarshal(MarshalOID(oidData)).rv

\* The value lists an attribute of the pool is encoded from.
ValueLists == {<<>>, <<ValueX>>, <<ValueY>>, <<ValueX, ValueY>>}

\* A SET whose content stops in the middle of a member.
MalformedSet ==
    [Class |-> ClassUniversal, Tag |-> TagSet, IsCompound |-> TRUE,
     Bytes |-> <<4, 5, 1>>, FullBytes |-> <<49, 3, 4, 5, 1>>]

AttrPool ==
    {[Type |-> t, RawValue |-> rv] :
        t \in {oidAttributeContentType, oidAttributeMessageDigest},
        rv \in {AnySetEncode(v) : v \in ValueLists} \cup {MalformedSet}}

AttrInputs ==
    {[attrs |-> a, oid |-> o] :
        a \in {NilAttributes}
              \cup {[isNil |-> FALSE, elems |-> e] : e \in SeqsUpTo(AttrPool, MaxAttrs)},
        o \in {oidAttributeContentType, oidAttributeMessageDigest,
               oidAttributeSigningTime}}

InitAttrs ==
    /\ BuilderIdle
    /\ input \in AttrInputs
    /\ output = Idle
    /\ pc = "ready"

CallGetOnlyAttributeValueBytes ==
    /\ pc = "ready"
    /\ output' = GetOnlyAttributeValueBytes(input.attrs, input.oid)
    /\ pc' = "done"
    /\ UNCHANGED <<sd, ret, calls, signLog, input>>

SpecAttrs == InitAttrs /\ [][CallGetOnlyAttributeValueBytes]_vars

(* SignerInfo.FindCertificate *)

MaxVersion == 4
MaxCandidates == 2

SIDs ==
    {NewIssuerAndSerialNumber(cA).rv,
     NewIssuerAndSerialNumber(cB).rv,
     [Class |-> ClassContextSpecific, Tag |-> 0, IsCompound |-> FALSE,
      Bytes |-> <<7>>, FullBytes |-> <<128, 1, 7>>],
     Unmarshal(TLV(TagOctetString, <<7>>)).rv}

SignerInfoOf(version, sid) ==
    [Version |-> version,
     SID |-> sid,
     DigestAlgorithm |-> [Algorithm |-> oidDigestAlgorithmSHA256],
     SignedAttrs |-> NilAttributes,
     SignatureAlgorithm |-> [Algorithm |-> oidSignatureAlgorithmRSA],
     Signature |-> NilBytes,
     UnsignedAttrs |-> NilAttributes]

FindInputs ==
    {[si |-> SignerInfoOf(v, sid), certs |-> cs] :
        v \in 0..MaxVersion, sid \in SIDs, cs \in SeqsUpTo(Certs, MaxCandidates)}

InitFind ==
    /\ BuilderIdle
    /\ input \in FindInputs
    /\ output = Idle
    /\ pc = "ready"

CallFindCertificate ==
    /\ pc = "ready"
    /\ output' = FindCertificate(input.si, input.certs)
    /\ pc' = "done"
    /\ UNCHANGED <<sd, ret, calls, signLog, input>>

SpecFind == InitFind /\ [][CallFindCertificate]_vars

(* EncapsulatedContentInfo.EContentValue *)

MaxSegments == 2

\* The TLVs put inside the wrapped value: primitive and constructed OCTET
\* STRINGs, a universal NULL-tagged value, a context-specific [4].
Children ==
    {[tag |-> t, payload |-> p] :
        t \in {4, 36, 5, 132}, p \in {<<>>, <<104>>, <<105, 0>>}}

\* The identifier octets of the wrapped value: primitive and constructed
\* OCTET STRING, SEQUENCE, context-specific [4] primitive and constructed.
OuterTags == {4, 36, 48, 132, 164}

ChildEncodings(children) ==
    [i \in 1..Len(children) |-> TLV(children[i].tag, children[i].payload)]

Payloads(children) == [i \in 1..Len(children) |-> children[i].payload]

\* The shapes of eContent: absent, or [0] { outer { children } trailing }.
Shapes ==
    {[present |-> FALSE, outer |-> 4, children |-> <<>>, trailing |-> <<>>]}
        \cup {[present |-> TRUE, outer |-> o, children |-> c, trailing |-> t] :
                 o \in OuterTags, c \in SeqsUpTo(Children, MaxSegments),
                 t \in {<<>>, <<0>>}}

ECIOfShape(shape) ==
    IF ~shape.present THEN [EContentType |-> oidData, EContent |-> ZeroRawValue]
    ELSE EContentOf(oidData,
                    TLV(shape.outer, Concat(ChildEncodings(shape.children)))
                    \o shape.trailing)

InitEContent ==
    /\ BuilderIdle
    /\ input \in Shapes
    /\ output = Idle
    /\ pc = "ready"

CallEContentValue ==
    /\ pc = "ready"
    /\ output' = EContentValue(ECIOfShape(input))
    /\ pc' = "done"
    /\ UNCHANGED <<sd, ret, calls, signLog, input>>

SpecEContent == InitEContent /\ [][CallEContentValue]_vars

---------------------------------------------------------------------------
(* Properties *)

DigestOf(i) == sd.SignerInfos[i].DigestAlgorithm.Algorithm

\* C1: in every state of the builder, DigestAlgorithms contains the digest
\* algorithm OID of every SignerInfo in SignerInfos.
C1_DigestAlgorithmsCoverSigners ==
    \A i \in 1..Len(sd.SignerInfos) :
        \E k \in 1..Len(sd.DigestAlgorithms) :
            sd.DigestAlgorithms[k].Algorithm = DigestOf(i)

\* Two signers with different digest algorithms have been added.
C1_Witness ==
    /\ Len(sd.SignerInfos) = 2
    /\ DigestOf(1) # DigestOf(2)
    /\ Len(sd.DigestAlgorithms) = 2

\* C2: after any sequence of AddSignerInfo calls the certificate set holds
\* no two entries with the same encoded certificate.
C2_NoDuplicateCertificates ==
    \A i, j \in 1..Len(sd.Certificates) :
        i # j => sd.Certificates[i].FullBytes # sd.Certificates[j].FullBytes

\* C3: DigestAlgorithms holds each digest algorithm OID at most once, so two
\* signers of one digest algorithm yield one entry.
C3_DigestAlgorithmsDistinct ==
    \A i, j \in 1..Len(sd.DigestAlgorithms) :
        i # j => sd.DigestAlgorithms[i].Algorithm # sd.DigestAlgorithms[j].Algorithm

\* Two signers with the same digest algorithm have been added.
C3_Witness ==
    /\ Len(sd.SignerInfos) = 2
    /\ DigestOf(1) = DigestOf(2)
    /\ Len(sd.DigestAlgorithms) = 1

VersionMatchesContentType ==
    sd.Version = IF sd.EncapContentInfo.EContentType = oidData THEN 1 ELSE 3

\* C4: Version is 1 if the encapsulated content type is id-data and 3
\* otherwise, in every state, and no AddSignerInfo call changes Version.
C4_VersionFollowsContentType ==
    [](VersionMatchesContentType) /\ [][sd'.Version = sd.Version]_vars

\* A signer has been added to a SignedData of type id-ct-TSTInfo, version 3.
C4_Witness ==
    /\ sd.EncapContentInfo.EContentType = oidTSTInfo
    /\ sd.Version = 3
    /\ Len(sd.SignerInfos) > 0

\* C5: the content-type signed attribute of every appended SignerInfo equals
\* the EContentType of the SignedData's encapsulated content.
C5_ContentTypeAttributeIsEContentType ==
    \A i \in 1..Len(sd.SignerInfos) :
        GetContentTypeAttribute(sd.SignerInfos[i]) =
            [err |-> ErrNone, ct |-> sd.EncapContentInfo.EContentType]

\* The signedAttrs as carried in the SignerInfo, the implicit [0] identifier
\* octet replaced by the universal SET OF one.
Retagged(attrs) ==
    <<TagByte(ClassUniversal, TRUE, TagSet)>> \o Tail(MarshalSignedAttrsField(attrs))

\* C6: the bytes AddSignerInfo digests and signs are the signed attributes as
\* carried in the appended SignerInfo, same order and octets, with only the
\* [0] tag replaced by the SET OF tag.
C6_SignedBytesAreRetaggedWire ==
    \A i \in 1..Len(sd.SignerInfos) :
        signLog[i].sm = Retagged(sd.SignerInfos[i].SignedAttrs)

\* The indices of the attributes of the input that have the OID asked for.
Matching ==
    IF input.attrs.isNil THEN {}
    ELSE {i \in 1..Len(input.attrs.elems) : input.attrs.elems[i].Type = input.oid}

\* The attribute was encoded from a list of exactly one value.
SingleValued(a) ==
    \E v \in ValueLists : Len(v) = 1 /\ a.RawValue = AnySetEncode(v)

OnlyValue(a) ==
    (CHOOSE v \in ValueLists : Len(v) = 1 /\ a.RawValue = AnySetEncode(v))[1]

\* C7: GetOnlyAttributeValueBytes returns a value exactly when one attribute
\* has the OID and that attribute has one value, and then returns that value;
\* otherwise (nil set, no match, several matches, zero or several values) it
\* returns an error.
C7_OnlyAttributeValue ==
    pc = "done" =>
        IF Cardinality(Matching) = 1
           /\ \A i \in Matching : SingleValued(input.attrs.elems[i])
        THEN /\ output.err = ErrNone
             /\ \A i \in Matching : output.rv = OnlyValue(input.attrs.elems[i])
        ELSE output.err # ErrNone

\* A value was returned from a set of three attributes.
C7_Witness ==
    /\ pc = "done"
    /\ output.err = ErrNone
    /\ Len(input.attrs.elems) = 3

\* C8 as stated: for every candidate list, the empty one included, a
\* SignerInfo whose Version is neither 1 nor 3 fails with "unknown SignerInfo
\* version" and no certificate.
C8_UnknownVersionAlways ==
    (pc = "done" /\ input.si.Version \notin {1, 3}) =>
        output = [cert |-> NilCert, err |-> ErrUnknownVersion]

\* C8, amended: a SignerInfo whose Version is neither 1 nor 3 gets no
\* certificate; the error is "unknown SignerInfo version" for a non-empty
\* candidate list and "no certificates" for the empty list.
C8_UnknownVersionNonEmpty ==
    (pc = "done" /\ input.si.Version \notin {1, 3}) =>
        output = [cert |-> NilCert,
                  err |-> IF Len(input.certs) = 0 THEN ErrNoCertificates
                          ELSE ErrUnknownVersion]

\* A version 2 SignerInfo was refused against two candidates.
C8_Witness ==
    /\ pc = "done"
    /\ input.si.Version = 2
    /\ Len(input.certs) = 2
    /\ output.err = ErrUnknownVersion

AllPrimitiveOctetStrings(children) ==
    \A i \in 1..Len(children) : children[i].tag = 4

\* C9: EContentValue returns nil and no error for an absent eContent, the
\* content octets of a primitive OCTET STRING, the concatenation of the
\* segments in order for a constructed one with primitive OCTET STRING
\* segments, and an error when a segment is constructed or no universal
\* OCTET STRING, when the wrapped value is no universal OCTET STRING, and
\* when bytes follow it.
C9_EContentValue ==
    pc = "done" =>
        /\ ~input.present => output = [value |-> NilBytes, err |-> ErrNone]
        /\ (input.present /\ input.trailing = <<>> /\ input.outer = 4) =>
               output = [value |-> Concat(ChildEncodings(input.children)),
                         err |-> ErrNone]
        /\ (input.present /\ input.trailing = <<>> /\ input.outer = 36
                /\ AllPrimitiveOctetStrings(input.children)) =>
               /\ output.err = ErrNone
               /\ BytesOf(output.value) = Concat(Payloads(input.children))
        /\ (input.present /\ input.outer = 36
                /\ ~AllPrimitiveOctetStrings(input.children)) =>
               output.err # ErrNone
        /\ (input.present /\ input.outer \notin {4, 36}) => output.err # ErrNone
        /\ (input.present /\ input.trailing # <<>>) => output.err # ErrNone

\* A constructed OCTET STRING of two segments was reassembled in order.
C9_Witness ==
    /\ pc = "done"
    /\ input.outer = 36
    /\ Payloads(input.children) = <<<<105, 0>>, <<104>>>>
    /\ output = [value |-> <<105, 0, 104>>, err |-> ErrNone]

\* The errors AddSignerInfo returns before it looks at the content.
EarlierErrors ==
    {ErrUnsupportedKey, ErrSyntax, ErrAlreadyAdded, ErrNoMatchingSigner,
     ErrUnsupportedDigest, ErrUnsupportedSignature}

\* C10: a call reports "already detached" only when the eContent field is
\* absent, and a call on a SignedData without eContent that gets as far as
\* the content reports it.
C10_DetachedIffAbsent ==
    calls > 0 =>
        /\ ret = ErrDetached => sd.EncapContentInfo.EContent.Bytes = NilBytes
        /\ sd.EncapContentInfo.EContent.Bytes = NilBytes =>
               ret \in EarlierErrors \cup {ErrDetached}

\* The message-digest attributes among the signed attributes of SignerInfo i.
MessageDigestAttributes(i) ==
    {k \in 1..Len(sd.SignerInfos[i].SignedAttrs.elems) :
        sd.SignerInfos[i].SignedAttrs.elems[k].Type = oidAttributeMessageDigest}

\* C11: every appended SignerInfo carries exactly one message-digest signed
\* attribute, with exactly one value, and GetMessageDigestAttribute returns
\* the digest, under the SignerInfo's digest algorithm, of the bytes
\* EContentValue returns for the SignedData's encapsulated content.
C11_MessageDigestOfContent ==
    \A i \in 1..Len(sd.SignerInfos) :
        /\ Cardinality(MessageDigestAttributes(i)) = 1
        /\ \A k \in MessageDigestAttributes(i) :
               LET v == AttributeValue(sd.SignerInfos[i].SignedAttrs.elems[k])
               IN  v.err = ErrNone /\ Len(v.Elements) = 1
        /\ GetMessageDigestAttribute(sd.SignerInfos[i]) =
               [err |-> ErrNone,
                md |-> Digest(Hash(sd.SignerInfos[i]).hash,
                              EContentValue(sd.EncapContentInfo).value)]

\* Two signers of different digest algorithms have signed a content that is
\* carried as a constructed OCTET STRING of two segments.
C11_Witness ==
    /\ Len(sd.SignerInfos) = 2
    /\ DigestOf(1) # DigestOf(2)
    /\ sd.EncapContentInfo.EContent.Bytes = <<36, 6, 4, 1, 104, 4, 1, 105>>
    /\ EContentValue(sd.EncapContentInfo).value = <<104, 105>>

\* C12: after a successful AddSignerInfo(chain, signer), FindCertificate on
\* the appended SignerInfo with the SignedData's certificates returns the
\* certificate that was used to sign, a chain certificate whose public key
\* is the signer's, also when certificates share a public key or share
\* issuer and serial number.
C12_FindsSigningCertificate ==
    (calls > 0 /\ ret = ErrNone) =>
        LET i == Len(sd.SignerInfos)
            found == FindCertificate(sd.SignerInfos[i], X509Certificates(sd).certs)
        IN  /\ found.err = ErrNone
            /\ found.cert.Raw = signLog[i].cert
            /\ found.cert.PublicKey = signLog[i].pub

\* C13: a call that fails because no chain certificate has the signer's
\* public key leaves the certificate set as it was before the call.
C13_NoMatchKeepsCertificates ==
    [][ret' = ErrNoMatchingSigner => sd'.Certificates = sd.Certificates]_vars

\* C14: a call that returns an error leaves SignerInfos, Version and
\* EncapContentInfo as they were; a call that returns success leaves Version
\* and EncapContentInfo alone and appends exactly one SignerInfo at the end.
C14_FailedCallKeepsSignerInfos ==
    [][/\ sd'.Version = sd.Version
       /\ sd'.EncapContentInfo = sd.EncapContentInfo
       /\ ret' # ErrNone => sd'.SignerInfos = sd.SignerInfos
       /\ ret' = ErrNone =>
              /\ Len(sd'.SignerInfos) = Len(sd.SignerInfos) + 1
              /\ SubSeq(sd'.SignerInfos, 1, Len(sd.SignerInfos)) = sd.SignerInfos
      ]_vars

\* A call failed at signing, the last fallible step, after an earlier call
\* had appended a SignerInfo.
C14_Witness ==
    /\ calls = 2
    /\ ret = ErrSign
    /\ Len(sd.SignerInfos) = 1

\* C15: a call that returns an error does not change DigestAlgorithms, and
\* Certificates is the only field of the SignedData it can have changed.
C15_FailedCallKeepsDigestAlgorithms ==
    [][ret' # ErrNone =>
           /\ sd'.DigestAlgorithms = sd.DigestAlgorithms
           /\ sd' = [sd EXCEPT !.Certificates = sd'.Certificates]
      ]_vars

\* A call failed at signing, having registered its chain, on a SignedData
\* that holds no digest algorithm yet.
C15_Witness ==
    /\ calls > 0
    /\ ret = ErrSign
    /\ Len(sd.Certificates) > 0
    /\ sd.DigestAlgorithms = <<>>

====
